---- MODULE Spec2Model ----
(***************************************************************************)
(* AgentDisplay (src/core/display.py): the incremental render buffer that  *)
(* accumulates agent events, throttles re-renders and edits one chat       *)
(* message under an asyncio lock.                                          *)
(*                                                                         *)
(* Text is a sequence of one-character strings, so that escaping, slicing  *)
(* and length are computed character by character.  A non-ASCII character  *)
(* of a source literal is written "uXXXX" and stands for one character.    *)
(* Time is counted in whole seconds.                                       *)
(***************************************************************************)
EXTENDS Integers, Sequences, FiniteSets, TLC

\* ---------------------------------------------------------------- bounds
MaxEvents == 3      \* update() calls made by the producer in one run
MaxTasks == 2       \* update() coroutines that may be active at once
MaxTime == 5        \* the clock stops advancing here
StartTime == 3      \* time.time() when the instance is constructed
MaxThinkEvents == 4 \* update() calls in a run of thinking and tool events
MaxLongEvents == 2  \* update() calls in a run that carries long contents
LongLen == 2100     \* length of a long content

Tasks == 1..MaxTasks

\* ------------------------------------------------------ program constants
render_interval == 2
max_log_len == 2000
result_limit == 200
telegram_limit == 4096

\* Python's None, as a value distinct from every text (its one element is
\* not a character).
None == <<"<None>">>

ThoughtPrefix ==
    <<"u00F0", "u0178", "u00A7", "u00A0", " ", "<", "i", ">", "T", "h", "o", "u", "g", "h", "t", ":", "<", "/", "i", ">", " ">>
ThoughtSuffix ==
    <<"\n", "\n">>
ExecPrefix ==
    <<"u00F0", "u0178", "u203A", "u00A0", " ", "<", "b", ">", "E", "x", "e", "c", ":", "<", "/", "b", ">", " ", "<", "c", "o", "d", "e", ">">>
ExecSuffix ==
    <<"<", "/", "c", "o", "d", "e", ">", "\n">>
ResultPrefix ==
    <<"u00E2", "u0153", "u2026", " ", "<", "b", ">", "R", "e", "s", "u", "l", "t", ":", "<", "/", "b", ">", " ">>
ResultSuffix ==
    <<"\n", "\n">>
ThinkingPrefix ==
    <<"u00F0", "u0178", "u00A7", "u00A0", " ", "<", "i", ">", "T", "h", "i", "n", "k", "i", "n", "g", ".", ".", ".", "<", "/", "i", ">", " ">>
ThinkingSuffix ==
    <<"\n">>
Ellipsis ==
    <<".", ".", ".">>
EarlierLogs ==
    <<".", ".", ".", "(", "e", "a", "r", "l", "i", "e", "r", " ", "l", "o", "g", "s", ")", ".", ".", ".", "\n">>
BlockquoteOpen ==
    <<"<", "b", "l", "o", "c", "k", "q", "u", "o", "t", "e", ">">>
BlockquoteClose ==
    <<"<", "/", "b", "l", "o", "c", "k", "q", "u", "o", "t", "e", ">", "\n", "\n">>
\* Variant: no fallback for an empty text.
PlaceholderMissing ==
    <<>>

Placeholder ==
    <<".", ".", ".">>
NoneStr ==
    <<"N", "o", "n", "e">>
AmpEntity ==
    <<"&", "a", "m", "p", ";">>
LtEntity ==
    <<"&", "l", "t", ";">>
GtEntity ==
    <<"&", "g", "t", ";">>

\* ------------------------------------------------------------ pure helpers
\* Python truthiness of a value that is None or a str.
Truthy(v) ==
    v # None /\ v # <<>>

\* str(v)
Str(v) ==
    IF v = None THEN NoneStr ELSE v

\* "".join(parts)
RECURSIVE Join(_)
Join(parts) ==
    IF parts = <<>> THEN <<>> ELSE Head(parts) \o Join(Tail(parts))

\* text.replace(ch, repl) for a one-character ch (by halves, so that long
\* texts do not nest deeply)
RECURSIVE Replace(_, _, _)
Replace(text, ch, repl) ==
    IF text = <<>> THEN <<>>
    ELSE IF Len(text) = 1 THEN (IF text[1] = ch THEN repl ELSE text)
    ELSE LET half == Len(text) \div 2
         IN  Replace(SubSeq(text, 1, half), ch, repl)
               \o Replace(SubSeq(text, half + 1, Len(text)), ch, repl)

\* Variant: "&" is replaced last, so the entities of "<" and ">" are
\* escaped again.
sanitize_html_amp_last(text) ==
    IF ~Truthy(text) THEN <<>>
    ELSE Replace(Replace(Replace(text, "<", LtEntity), ">", GtEntity), "&", AmpEntity)

\* _sanitize_html
sanitize_html(text) ==
    IF ~Truthy(text) THEN <<>>
    ELSE Replace(Replace(Replace(text, "&", AmpEntity), "<", LtEntity), ">", GtEntity)

\* s[:n]
Prefix(s, n) ==
    SubSeq(s, 1, IF Len(s) < n THEN Len(s) ELSE n)

\* s[-n:] for n > 0
Suffix(s, n) ==
    IF Len(s) <= n THEN s ELSE SubSeq(s, Len(s) - n + 1, Len(s))

\* One log entry as rendered by the loop of _build_text.
LogLine(entry) ==
    CASE entry.type = "thinking" ->
            ThoughtPrefix \o sanitize_html(entry.content) \o ThoughtSuffix
      [] entry.type = "tool_call" ->
            ExecPrefix \o sanitize_html(entry.content) \o ExecSuffix
      [] entry.type = "tool_result" ->
            ResultPrefix
              \o sanitize_html(Prefix(Str(entry.content), result_limit)
                   \o (IF Len(Str(entry.content)) > result_limit THEN Ellipsis ELSE <<>>))
              \o ResultSuffix
      [] OTHER -> <<>>

RECURSIVE LogLines(_)
LogLines(entries) ==
    IF entries = <<>> THEN <<>> ELSE LogLine(Head(entries)) \o LogLines(Tail(entries))

\* The log section of _build_text: entries, live thinking line, front cut.
LogText(ls, buf) ==
    LET current_think == Join(buf)
        log_text == LogLines(ls)
                      \o (IF current_think # <<>>
                          THEN ThinkingPrefix \o sanitize_html(current_think) \o ThinkingSuffix
                          ELSE <<>>)
    IN  IF Len(log_text) > max_log_len
        THEN EarlierLogs \o Suffix(log_text, max_log_len)
        ELSE log_text

\* _build_text
build_text(ls, buf, parts) ==
    LET log_text == LogText(ls, buf)
        final_text == Join(parts)
        full_text == (IF log_text # <<>>
                      THEN BlockquoteOpen \o log_text \o BlockquoteClose
                      ELSE <<>>)
                       \o sanitize_html(final_text)
    IN  IF full_text = <<>> THEN Placeholder ELSE full_text

\* ------------------------------------------------------------------ events
\* state_update is a dict; a key that is absent reads as None (dict.get).
Get(e, k) ==
    IF k \in DOMAIN e THEN e[k] ELSE None

Contents == {<<"a">>, <<"<", "b">>}

Events ==
    [status : {<<"thinking">>}, content : Contents \cup {<<>>}]
      \cup {[status |-> <<"tool_use">>, tool |-> <<"t">>, args |-> <<"x">>]}
      \cup {[status |-> <<"observation">>, result |-> <<"r", "&">>]}
      \cup [status : {<<"final_stream">>}, content : {<<"a">>, <<>>}]
      \cup [status : {<<"final">>}, content : {<<"c">>}]
      \cup {[status |-> <<"final">>]}
      \cup {[status |-> <<"ping">>, content |-> <<"a">>], [content |-> <<"a">>]}

RecognizedKinds ==
    {<<"thinking">>, <<"tool_use">>, <<"observation">>, <<"final_stream">>, <<"final">>}

FlushKinds ==
    {<<"tool_use">>, <<"final_stream">>, <<"final">>}

\* ------------------------------------------------------------------- state
VARIABLES
    logs,                      \* self.logs: sequence of [type, content]
    final_response_parts,      \* self.final_response_parts
    current_thinking_buffer,   \* self.current_thinking_buffer
    last_render_time,          \* self.last_render_time
    lock,                      \* self.lock: 0 when free, else the holding task
    waiters,                   \* self.lock's FIFO of tasks blocked in acquire
    now,                       \* time.time()
    pc,                        \* where each update() coroutine is
    text,                      \* the local `text` of each coroutine in its edit
    calls,                     \* sink invocations made by each coroutine's current call
    outcome,                   \* how each coroutine's last call ended
    history,                   \* every state_update processed, in order
    sink_calls,                \* edit_message_text invocations so far
    sink_errors,               \* how many of them raised
    last_edit,                 \* how the edit that ended last ended
    delivered                  \* text of the last edit the sink accepted

vars ==
    <<logs, final_response_parts, current_thinking_buffer, last_render_time,
      lock, waiters, now, pc, text, calls, outcome, history, sink_calls, sink_errors,
      last_edit, delivered>>

\* The three accumulators as one record.
RenderState ==
    [logs |-> logs, buf |-> current_thinking_buffer, parts |-> final_response_parts]

\* Variant: the flush does not clear the buffer.
FlushThinkingKeepsBuffer(s) ==
    IF s.buf # <<>>
    THEN [s EXCEPT !.logs = Append(s.logs, [type |-> "thinking", content |-> Join(s.buf)])]
    ELSE s

\* Variant: the flush appends a Thought entry even for an empty buffer.
FlushThinkingAlways(s) ==
    [s EXCEPT !.logs = Append(s.logs, [type |-> "thinking", content |-> Join(s.buf)]),
              !.buf = <<>>]

\* Variant: the flush keeps only the last fragment.
FlushThinkingLastOnly(s) ==
    IF s.buf # <<>>
    THEN [s EXCEPT !.logs = Append(s.logs, [type |-> "thinking",
                                            content |-> s.buf[Len(s.buf)]]),
                   !.buf = <<>>]
    ELSE s

\* Variant: the flushed Thought is put at the front of the log.
FlushThinkingInFront(s) ==
    IF s.buf # <<>>
    THEN [s EXCEPT !.logs = <<[type |-> "thinking", content |-> Join(s.buf)]>> \o s.logs,
                   !.buf = <<>>]
    ELSE s

\* "Flush thinking buffer if any" (the same three lines in three branches)
FlushThinking(s) ==
    IF s.buf # <<>>
    THEN [s EXCEPT !.logs = Append(s.logs, [type |-> "thinking", content |-> Join(s.buf)]),
                   !.buf = <<>>]
    ELSE s

\* Variant: an observation flushes the pending thought first.
AppendResultFlushing(s, result) ==
    LET f == IF s.buf # <<>>
             THEN [s EXCEPT !.logs = Append(s.logs, [type |-> "thinking",
                                                     content |-> Join(s.buf)]),
                            !.buf = <<>>]
             ELSE s
    IN  [f EXCEPT !.logs = Append(f.logs, [type |-> "tool_result", content |-> result])]

\* `self.logs.append(('tool_result', result))`
AppendResult(s, result) ==
    [s EXCEPT !.logs = Append(s.logs, [type |-> "tool_result", content |-> result])]

\* Variant: should_render starts out set.
InitialShouldRenderSet ==
    TRUE

\* should_render before the branch on status.
InitialShouldRender ==
    FALSE

\* Variant: final appends its content like final_stream.
SetFinalAppends(parts, content) ==
    IF Truthy(content) THEN Append(parts, content) ELSE parts

\* `self.final_response_parts = [content] if content else []`
SetFinal(parts, content) ==
    IF Truthy(content) THEN <<content>> ELSE <<>>

\* The synchronous part of update(): the branch on status.  Returns the new
\* accumulators and should_render.
ProcessEvent(s, e) ==
    LET status == Get(e, "status")
        content == Get(e, "content")
        keep(r, render) == [logs |-> r.logs, buf |-> r.buf, parts |-> r.parts,
                            should_render |-> render]
    IN  CASE status = <<"thinking">> ->
                IF Truthy(content)
                THEN keep([s EXCEPT !.buf = Append(s.buf, content)], TRUE)
                ELSE keep(s, InitialShouldRender)
          [] status = <<"tool_use">> ->
                LET f == FlushThinking(s)
                    call == Str(Get(e, "tool")) \o <<"(">> \o Str(Get(e, "args")) \o <<")">>
                IN  keep([f EXCEPT !.logs = Append(f.logs, [type |-> "tool_call", content |-> call])],
                         TRUE)
          [] status = <<"observation">> ->
                keep(AppendResult(s, Get(e, "result")), TRUE)
          [] status = <<"final_stream">> ->
                LET f == FlushThinking(s)
                IN  IF Truthy(content)
                    THEN keep([f EXCEPT !.parts = Append(f.parts, content)], TRUE)
                    ELSE keep(f, InitialShouldRender)
          [] status = <<"final">> ->
                LET f == FlushThinking(s)
                IN  keep([f EXCEPT !.parts = SetFinal(f.parts, content)], TRUE)
          [] OTHER -> keep(s, InitialShouldRender)

\* Variant: a call made exactly render_interval after the last edit is skipped.
ThrottledInclusive(force, t_now, t_last) ==
    ~force /\ (t_now - t_last <= render_interval)

\* The throttle test of _try_render: TRUE when the call returns without editing.
Throttled(force, t_now, t_last) ==
    ~force /\ (t_now - t_last < render_interval)

\* Variant: the edit is started without looking at the lock.
CanAcquireUnguarded ==
    TRUE

\* asyncio.Lock.acquire() returns without suspending only when the lock is
\* free and nobody is queued for it.
CanAcquire ==
    lock = 0 /\ waiters = <<>>

\* Entering the critical section: build the text and call edit_message_text;
\* n is the number of sink invocations this call has made before.
StartEdit(t, s, n) ==
    /\ lock' = t
    /\ text' = [text EXCEPT ![t] = build_text(s.logs, s.buf, s.parts)]
    /\ pc' = [pc EXCEPT ![t] = "editing"]
    /\ calls' = [calls EXCEPT ![t] = n + 1]
    /\ sink_calls' = sink_calls + 1

\* Leaving `async with self.lock`.
Release ==
    lock' = 0

\* _try_render up to its first suspension point, on accumulators s.
TryRender(t, force, s) ==
    IF Throttled(force, now, last_render_time)
    THEN /\ outcome' = [outcome EXCEPT ![t] = "throttled"]
         /\ calls' = [calls EXCEPT ![t] = 0]
         /\ UNCHANGED <<lock, waiters, pc, text, sink_calls>>
    ELSE IF CanAcquire
         THEN /\ StartEdit(t, s, 0)
              /\ outcome' = [outcome EXCEPT ![t] = "none"]
              /\ UNCHANGED waiters
         ELSE /\ waiters' = Append(waiters, t)
              /\ pc' = [pc EXCEPT ![t] = "waiting"]
              /\ outcome' = [outcome EXCEPT ![t] = "none"]
              /\ calls' = [calls EXCEPT ![t] = 0]
              /\ UNCHANGED <<lock, text, sink_calls>>

\* ----------------------------------------------------------------- actions
Init ==
    /\ logs = <<>>
    /\ final_response_parts = <<>>
    /\ current_thinking_buffer = <<>>
    /\ last_render_time = 0
    /\ lock = 0
    /\ waiters = <<>>
    /\ now = StartTime
    /\ pc = [t \in Tasks |-> "idle"]
    /\ text = [t \in Tasks |-> None]
    /\ calls = [t \in Tasks |-> 0]
    /\ outcome = [t \in Tasks |-> "none"]
    /\ history = <<>>
    /\ sink_calls = 0
    /\ sink_errors = 0
    /\ last_edit = "none"
    /\ delivered = None

\* Variant: a final event forces its render past the throttle.
ForceFinal(e) ==
    Get(e, "status") = <<"final">>

\* The force argument update() gives _try_render: none, so its default.
Force(e) ==
    FALSE

\* A coroutine calls update(e) and runs to its first suspension or its return.
\* Coroutines are interchangeable: a new call takes the first free one.
Call(t, e) ==
    /\ pc[t] = "idle"
    /\ \A u \in Tasks : u < t => pc[u] # "idle"
    /\ LET s == ProcessEvent(RenderState, e)
       IN  /\ logs' = s.logs
           /\ current_thinking_buffer' = s.buf
           /\ final_response_parts' = s.parts
           /\ history' = Append(history, e)
           /\ IF s.should_render
              THEN TryRender(t, Force(e), s)
              ELSE /\ outcome' = [outcome EXCEPT ![t] = "noop"]
                   /\ calls' = [calls EXCEPT ![t] = 0]
                   /\ UNCHANGED <<lock, waiters, pc, text, sink_calls>>
    /\ UNCHANGED <<last_render_time, now, sink_errors, last_edit, delivered>>

\* update(e), for a producer that makes at most MaxEvents calls.
Update(t, e) ==
    /\ Len(history) < MaxEvents
    /\ Call(t, e)

\* Variant: a render is also started by a trailing timer, after a call that
\* the throttle skipped has returned.
AcquireOrTrailing(t) ==
    \/ /\ pc[t] = "waiting"
       /\ lock = 0
       /\ waiters # <<>> /\ Head(waiters) = t
       /\ waiters' = Tail(waiters)
       /\ StartEdit(t, RenderState, calls[t])
       /\ UNCHANGED <<logs, final_response_parts, current_thinking_buffer, last_render_time,
                      now, outcome, history, sink_errors, last_edit, delivered>>
    \/ /\ \A u \in Tasks : pc[u] = "idle"
       /\ outcome[t] = "throttled"
       /\ lock = 0 /\ waiters = <<>>
       /\ StartEdit(t, RenderState, 0)
       /\ UNCHANGED <<logs, final_response_parts, current_thinking_buffer, last_render_time,
                      waiters, now, outcome, history, sink_errors, last_edit, delivered>>

\* Variant: building the text moves the pending thought into the log.
AcquireBuildFlushes(t) ==
    /\ pc[t] = "waiting"
    /\ lock = 0
    /\ waiters # <<>> /\ Head(waiters) = t
    /\ waiters' = Tail(waiters)
    /\ StartEdit(t, RenderState, calls[t])
    /\ logs' = IF current_thinking_buffer # <<>>
               THEN Append(logs, [type |-> "thinking", content |-> Join(current_thinking_buffer)])
               ELSE logs
    /\ current_thinking_buffer' = <<>>
    /\ UNCHANGED <<final_response_parts, last_render_time,
                   now, outcome, history, sink_errors, last_edit, delivered>>

\* A coroutine blocked on the lock is handed it, builds the text and edits.
Acquire(t) ==
    /\ pc[t] = "waiting"
    /\ lock = 0
    /\ waiters # <<>> /\ Head(waiters) = t
    /\ waiters' = Tail(waiters)
    /\ StartEdit(t, RenderState, calls[t])
    /\ UNCHANGED <<logs, final_response_parts, current_thinking_buffer, last_render_time,
                   now, outcome, history, sink_errors, last_edit, delivered>>

\* edit_message_text returns: the timestamp is taken and the call returns.
EditOk(t) ==
    /\ pc[t] = "editing"
    /\ last_render_time' = now
    /\ delivered' = text[t]
    /\ Release
    /\ pc' = [pc EXCEPT ![t] = "idle"]
    /\ outcome' = [outcome EXCEPT ![t] = "rendered"]
    /\ text' = [text EXCEPT ![t] = None]
    /\ last_edit' = "ok"
    /\ UNCHANGED <<logs, final_response_parts, current_thinking_buffer, waiters, now,
                   calls, history, sink_calls, sink_errors>>

\* Variant: the lock is taken and released by hand, and a failing edit
\* skips the release.
EditFailKeepsLock(t) ==
    /\ pc[t] = "editing"
    /\ pc' = [pc EXCEPT ![t] = "idle"]
    /\ outcome' = [outcome EXCEPT ![t] = "swallowed"]
    /\ sink_errors' = sink_errors + 1
    /\ last_edit' = "failed"
    /\ text' = [text EXCEPT ![t] = None]
    /\ UNCHANGED <<logs, final_response_parts, current_thinking_buffer, last_render_time,
                   lock, waiters, now, calls, history, sink_calls, delivered>>

\* edit_message_text raises: `except Exception: pass`, and the call returns.
EditFail(t) ==
    /\ pc[t] = "editing"
    /\ Release
    /\ pc' = [pc EXCEPT ![t] = "idle"]
    /\ outcome' = [outcome EXCEPT ![t] = "swallowed"]
    /\ sink_errors' = sink_errors + 1
    /\ last_edit' = "failed"
    /\ text' = [text EXCEPT ![t] = None]
    /\ UNCHANGED <<logs, final_response_parts, current_thinking_buffer, last_render_time,
                   waiters, now, calls, history, sink_calls, delivered>>

\* The clock advances.
Tick ==
    /\ now < MaxTime
    /\ now' = now + 1
    /\ UNCHANGED <<logs, final_response_parts, current_thinking_buffer, last_render_time,
                   lock, waiters, pc, text, calls, outcome, history, sink_calls,
                   sink_errors, last_edit, delivered>>

Next ==
    \/ \E t \in Tasks, e \in Events : Update(t, e)
    \/ \E t \in Tasks : Acquire(t)
    \/ \E t \in Tasks : EditOk(t)
    \/ \E t \in Tasks : EditFail(t)
    \/ Tick

Spec ==
    Init /\ [][Next]_vars

\* ------------------------------------------- the same program, long contents
\* A content longer than the log cap; two of them exceed a message.
LongContent ==
    [i \in 1..LongLen |-> "x"]

LongEvents ==
    [status : {<<"thinking">>}, content : {<<"<", "b">>, LongContent}]
      \cup {[status |-> <<"final_stream">>, content |-> LongContent]}

\* update(e), for a producer that makes at most MaxLongEvents calls.
UpdateLong(t, e) ==
    /\ Len(history) < MaxLongEvents
    /\ Call(t, e)

NextLong ==
    \/ \E t \in Tasks, e \in LongEvents : UpdateLong(t, e)
    \/ \E t \in Tasks : Acquire(t)
    \/ \E t \in Tasks : EditOk(t)
    \/ \E t \in Tasks : EditFail(t)
    \/ Tick

SpecLong ==
    Init /\ [][NextLong]_vars

\* ------------------------------- the same program, thinking around tool use
ThinkEvents ==
    [status : {<<"thinking">>}, content : Contents]
      \cup {[status |-> <<"tool_use">>, tool |-> <<"t">>, args |-> <<"x">>]}
      \cup {[status |-> <<"observation">>, result |-> <<"r", "&">>]}

\* update(e), for a producer that makes at most MaxThinkEvents calls.
UpdateThink(t, e) ==
    /\ Len(history) < MaxThinkEvents
    /\ Call(t, e)

NextThink ==
    \/ \E t \in Tasks, e \in ThinkEvents : UpdateThink(t, e)
    \/ \E t \in Tasks : Acquire(t)
    \/ \E t \in Tasks : EditOk(t)
    \/ \E t \in Tasks : EditFail(t)
    \/ Tick

SpecThink ==
    Init /\ [][NextThink]_vars

\* ------------------------------------------------------ derived quantities
Status(e) ==
    Get(e, "status")

Last(h) ==
    h[Len(h)]

Editing ==
    {t \in Tasks : pc[t] = "editing"}

\* No update() call is in progress.
Quiescent ==
    \A t \in Tasks : pc[t] = "idle"

EmptyState ==
    [logs |-> <<>>, buf |-> <<>>, parts |-> <<>>]

\* The accumulators after processing the events of h in order.
RECURSIVE Accumulate(_)
Accumulate(h) ==
    IF h = <<>> THEN EmptyState
    ELSE LET r == ProcessEvent(Accumulate(SubSeq(h, 1, Len(h) - 1)), Last(h))
         IN  [logs |-> r.logs, buf |-> r.buf, parts |-> r.parts]

\* The i-th event of h asked for a render.
Dirty(h, i) ==
    ProcessEvent(Accumulate(SubSeq(h, 1, i - 1)), h[i]).should_render

\* This step is the synchronous part of an update() call.
UpdateStep ==
    Len(history') = Len(history) + 1

IsPrefix(a, b) ==
    Len(a) <= Len(b) /\ SubSeq(b, 1, Len(a)) = a

\* ------------------------------------------------------------------ claims
\* C1: at most one sink edit is in flight at any time, under every
\* interleaving of update() calls.
C1_OneEditInFlight ==
    Cardinality(Editing) <= 1

\* An update arrived while an edit was in flight and is waiting for the lock.
C1_Witness ==
    \E t, u \in Tasks : pc[t] = "editing" /\ pc[u] = "waiting" /\ lock = t

\* C2: every sink edit of an unforced update() is performed only when, at
\* the moment it is performed, now - last_render_time >= render_interval.
C2_EditOnlyAfterInterval ==
    [][sink_calls' # sink_calls => now - last_render_time >= render_interval]_vars

\* C3: sequential dirty calls: a call made less than render_interval after
\* the last successful edit invokes the sink zero times; a call made at least
\* render_interval after it invokes the sink exactly once, with the text
\* built from the state accumulated by every call so far, skipped ones
\* included.
C3_ThrottleCoalesces ==
    [][(UpdateStep /\ Quiescent /\ Dirty(history', Len(history')))
         => IF now - last_render_time < render_interval
            THEN /\ sink_calls' = sink_calls
                 /\ \A t \in Tasks : pc'[t] = "idle"
                 /\ \E t \in Tasks : outcome'[t] = "throttled" /\ calls'[t] = 0
            ELSE /\ sink_calls' = sink_calls + 1
                 /\ \E t \in Tasks :
                      /\ pc'[t] = "editing" /\ calls'[t] = 1
                      /\ \A u \in Tasks \ {t} : pc'[u] = "idle"
                      /\ LET a == Accumulate(history')
                         IN  text'[t] = build_text(a.logs, a.buf, a.parts)]_vars

\* Three dirty calls that each change the text: the first one's edit was
\* accepted, the second made no sink call, and the third is editing with the
\* state accumulated by all three.
C3_Witness ==
    /\ Len(history) = 3
    /\ \A i \in 1..3 : Dirty(history, i)
    /\ sink_calls = 2
    /\ sink_errors = 0
    /\ last_render_time > 0
    /\ now - last_render_time >= render_interval
    /\ LET a1 == Accumulate(SubSeq(history, 1, 1))
           a2 == Accumulate(SubSeq(history, 1, 2))
           a3 == Accumulate(history)
       IN  /\ delivered = build_text(a1.logs, a1.buf, a1.parts)
           /\ build_text(a2.logs, a2.buf, a2.parts) # build_text(a1.logs, a1.buf, a1.parts)
           /\ build_text(a3.logs, a3.buf, a3.parts) # build_text(a2.logs, a2.buf, a2.parts)
           /\ \E t \in Tasks :
                 /\ pc[t] = "editing"
                 /\ \A u \in Tasks \ {t} : pc[u] = "idle"
                 /\ text[t] = build_text(a3.logs, a3.buf, a3.parts)

\* Some event of h asked for a render.
AnyDirty(h) ==
    \E i \in 1..Len(h) : Dirty(h, i)

\* C4: once the producer has stopped and every call has returned, with the
\* sink accepting edits, the last text delivered is the text of the final
\* state.
C4_LatestStateDelivered ==
    (Quiescent /\ AnyDirty(history) /\ sink_errors = 0)
        => delivered = build_text(logs, current_thinking_buffer, final_response_parts)

\* C5 (as claimed): the buffer is non-empty only if the most recently
\* processed event was a thinking event, and is empty right after a
\* tool_use, final_stream or final event.
C5_PendingOnlyAfterThinking ==
    /\ current_thinking_buffer # <<>>
         => (history # <<>> /\ Status(Last(history)) = <<"thinking">>)
    /\ (history # <<>> /\ Status(Last(history)) \in FlushKinds)
         => current_thinking_buffer = <<>>

\* C5 (amended): the buffer is non-empty only if a thinking event with
\* non-empty content was processed and no tool_use, final_stream or final
\* event was processed after it; and it is empty right after a tool_use,
\* final_stream or final event.
C5_PendingOnlySinceThinking ==
    /\ current_thinking_buffer # <<>>
         => \E i \in 1..Len(history) :
               /\ Status(history[i]) = <<"thinking">>
               /\ Truthy(Get(history[i], "content"))
               /\ \A j \in (i + 1)..Len(history) : Status(history[j]) \notin FlushKinds
    /\ (history # <<>> /\ Status(Last(history)) \in FlushKinds)
         => current_thinking_buffer = <<>>

\* The buffer holds a fragment and the last event processed was an observation.
C5_Witness ==
    /\ history # <<>>
    /\ Status(Last(history)) = <<"observation">>
    /\ current_thinking_buffer # <<>>

\* The non-empty thinking contents of h that arrived after its last
\* tool_use, final_stream or final event, in arrival order.
RECURSIVE PendingFragments(_)
PendingFragments(h) ==
    IF h = <<>> \/ Status(Last(h)) \in FlushKinds THEN <<>>
    ELSE LET rest == PendingFragments(SubSeq(h, 1, Len(h) - 1))
         IN  IF Status(Last(h)) = <<"thinking">> /\ Truthy(Get(Last(h), "content"))
             THEN Append(rest, Get(Last(h), "content"))
             ELSE rest

\* The entries an event appends to logs on its own account.
OwnEntries(e) ==
    IF Status(e) = <<"tool_use">>
    THEN <<[type |-> "tool_call",
            content |-> Str(Get(e, "tool")) \o <<"(">> \o Str(Get(e, "args")) \o <<")">>]>>
    ELSE <<>>

\* C6: a tool_use, final_stream or final event processed while fragments
\* f1..fn are pending appends exactly one Thought entry f1+...+fn before its
\* own entries and empties the buffer; with nothing pending it appends no
\* Thought entry.
C6_FlushMovesThought ==
    [][(UpdateStep /\ Status(Last(history')) \in FlushKinds)
         => LET f == PendingFragments(history)
                e == Last(history')
            IN  /\ current_thinking_buffer = f
                /\ current_thinking_buffer' = <<>>
                /\ logs' = logs
                            \o (IF f # <<>>
                                THEN <<[type |-> "thinking", content |-> Join(f)]>>
                                ELSE <<>>)
                            \o OwnEntries(e)]_vars

\* Two fragments were flushed as one Thought entry ahead of a tool call.
C6_Witness ==
    /\ Len(history) = 3
    /\ Status(Last(history)) = <<"tool_use">>
    /\ Len(logs) = 2
    /\ logs[1].type = "thinking"
    /\ Len(logs[1].content) >= 2
    /\ logs[1].content = Get(history[1], "content") \o Get(history[2], "content")
    /\ logs[2].type = "tool_call"
    /\ current_thinking_buffer = <<>>

\* C7: logs is append-only: in every step, whatever it is, the old logs is
\* a prefix of the new logs.
C7_LogsAppendOnly ==
    [][IsPrefix(logs, logs')]_vars

\* The log has grown past a tool result by a flush, and an edit has failed.
C7_Witness ==
    /\ Len(logs) >= 2
    /\ logs[1].type = "tool_result"
    /\ logs[2].type = "thinking"
    /\ sink_errors > 0

\* C8: after final(c) the final answer is exactly c (empty when c is absent
\* or empty); after final_stream(c) with non-empty c it is the previous
\* answer followed by c.
C8_FinalReplacesStreamAppends ==
    [][UpdateStep
         => LET e == Last(history')
                c == Get(e, "content")
            IN  /\ Status(e) = <<"final">>
                     => Join(final_response_parts') = (IF Truthy(c) THEN c ELSE <<>>)
                /\ (Status(e) = <<"final_stream">> /\ Truthy(c))
                     => Join(final_response_parts') = Join(final_response_parts) \o c]_vars

\* A final event replaced an answer that two earlier events had streamed.
C8_Witness ==
    /\ Len(history) = 3
    /\ Status(history[1]) = <<"final_stream">> /\ Truthy(Get(history[1], "content"))
    /\ Status(history[2]) = <<"final_stream">> /\ Truthy(Get(history[2], "content"))
    /\ Status(history[3]) = <<"final">>
    /\ Join(final_response_parts) = Get(history[3], "content")
    /\ Len(Join(final_response_parts)) = 1

\* C9: an update() whose status is not one of the five kinds, or is
\* missing, changes nothing, does not call the sink and returns normally.
C9_UnknownKindIsNoOp ==
    [][(UpdateStep /\ Status(Last(history')) \notin RecognizedKinds)
         => /\ UNCHANGED <<logs, current_thinking_buffer, final_response_parts,
                           last_render_time, sink_calls, lock, waiters, pc, text,
                           delivered>>
            /\ \A t \in Tasks : pc[t] = "idle" /\ outcome'[t] # outcome[t]
                                  => outcome'[t] = "noop"]_vars

\* An unrecognized event was processed when the state was not empty and the
\* throttle would have let a render through.
C9_Witness ==
    /\ history # <<>>
    /\ Status(Last(history)) \notin RecognizedKinds
    /\ logs # <<>>
    /\ now - last_render_time >= render_interval
    /\ lock = 0
    /\ \E t \in Tasks : outcome[t] = "noop"

\* C10: when the sink fails, update() returns normally, the accumulators are
\* what the events produced, the lock is released and the sink is not called
\* again within the same call.
C10_SinkFailureSwallowed ==
    [][\A t \in Tasks :
         (pc[t] = "editing" /\ sink_errors' = sink_errors + 1 /\ lock = t)
           => /\ pc'[t] = "idle"
              /\ outcome'[t] = "swallowed"
              /\ lock' = 0
              /\ calls'[t] = 1
              /\ sink_calls' = sink_calls
              /\ LET a == Accumulate(history')
                 IN  /\ logs' = a.logs
                     /\ current_thinking_buffer' = a.buf
                     /\ final_response_parts' = a.parts]_vars

\* After a failed edit another update is rendering.
C10_Witness ==
    \E t, u \in Tasks :
        /\ outcome[t] = "swallowed"
        /\ pc[t] = "idle"
        /\ pc[u] = "editing"
        /\ lock = u

\* C11: the text passed to the sink is at most 4096 characters long,
\* whatever the contents.
C11_TextWithinLimit ==
    \A t \in Editing : Len(text[t]) <= telegram_limit

\* C12: the text built for the sink is never empty, and for a buffer whose
\* logs, pending thought and final answer are empty it is exactly "...".
C12_TextNeverEmpty ==
    /\ \A t \in Editing : text[t] # <<>>
    /\ build_text(logs, current_thinking_buffer, final_response_parts) # <<>>
    /\ (logs = <<>> /\ Join(current_thinking_buffer) = <<>> /\ Join(final_response_parts) = <<>>)
         => build_text(logs, current_thinking_buffer, final_response_parts) = <<".", ".", ".">>

\* An edit is in flight for a buffer that holds nothing: its text is "...".
C12_Witness ==
    /\ history # <<>>
    /\ logs = <<>> /\ current_thinking_buffer = <<>> /\ final_response_parts = <<>>
    /\ \E t \in Editing : text[t] = <<".", ".", ".">>

\* C13: every event of the five kinds, whatever its content, marks the
\* buffer dirty: processed with the interval elapsed and no edit in flight it
\* invokes the sink; every thinking(content) appends content to the pending
\* thought.
C13_EveryKindRenders ==
    [][(UpdateStep /\ Status(Last(history')) \in RecognizedKinds)
         => LET e == Last(history')
            IN  /\ (now - last_render_time >= render_interval /\ Quiescent /\ lock = 0)
                     => sink_calls' = sink_calls + 1
                /\ Status(e) = <<"thinking">>
                     => Join(current_thinking_buffer')
                          = Join(current_thinking_buffer) \o Get(e, "content")]_vars

\* Character-by-character HTML escaping.
EscapeChar(c) ==
    CASE c = "&" -> AmpEntity
      [] c = "<" -> LtEntity
      [] c = ">" -> GtEntity
      [] OTHER -> <<c>>

RECURSIVE Escaped(_)
Escaped(txt) ==
    IF txt = <<>> THEN <<>>
    ELSE IF Len(txt) = 1 THEN EscapeChar(txt[1])
    ELSE LET half == Len(txt) \div 2
         IN  Escaped(SubSeq(txt, 1, half)) \o Escaped(SubSeq(txt, half + 1, Len(txt)))

\* The "Thinking..." line for fragments f.
ThinkingLine(f) ==
    ThinkingPrefix \o Escaped(Join(f)) \o <<"\n">>

\* Every event of h is a thinking event.
OnlyThinking(h) ==
    \A i \in 1..Len(h) : Status(h[i]) = <<"thinking">>

\* This step starts an edit in coroutine t.
StartsEdit(t) ==
    pc[t] # "editing" /\ pc'[t] = "editing"

\* C14 (as claimed): for a run of thinking events only, every text passed to
\* the sink holds the "Thinking..." line with the escaped concatenation of
\* all fragments so far, whatever their number and length.
C14_ThinkingLineComplete ==
    [][\A t \in Tasks :
         (StartsEdit(t) /\ OnlyThinking(history'))
           => text'[t] = BlockquoteOpen \o ThinkingLine(PendingFragments(history'))
                           \o BlockquoteClose]_vars

\* C14 (amended): that holds while the line is at most 2000 characters long;
\* a longer line is cut to its last 2000 characters behind the
\* "...(earlier logs)..." marker.
C14_ThinkingLineUpToCap ==
    [][\A t \in Tasks :
         (StartsEdit(t) /\ OnlyThinking(history'))
           => LET line == ThinkingLine(PendingFragments(history'))
              IN  text'[t] = BlockquoteOpen
                               \o (IF Len(line) <= 2000
                                   THEN line
                                   ELSE EarlierLogs \o SubSeq(line, Len(line) - 1999, Len(line)))
                               \o BlockquoteClose]_vars

\* Two short fragments with markup in them are shown, escaped, in one line.
C14_Witness ==
    /\ Len(history) = 2
    /\ OnlyThinking(history)
    /\ Len(PendingFragments(history)) = 2
    /\ \E t \in Editing :
         text[t] = BlockquoteOpen
                     \o ThinkingPrefix
                     \o <<"&", "l", "t", ";", "b", "&", "l", "t", ";", "b">>
                     \o <<"\n">>
                     \o BlockquoteClose

\* C15: every sink invocation is made by an update() call that has not
\* returned, and once all calls have returned nothing happens to the instance
\* until the next update(): no sink invocation and no change of state.
C15_NothingOutsideCalls ==
    [][/\ sink_calls' # sink_calls => \E t \in Tasks : StartsEdit(t)
       /\ (Quiescent /\ ~UpdateStep)
            => UNCHANGED <<logs, current_thinking_buffer, final_response_parts,
                           last_render_time, lock, waiters, pc, text, calls,
                           sink_calls, sink_errors, delivered>>]_vars

\* All calls have returned, the last one skipped by the throttle; the
\* interval has since elapsed and the sink still shows the older text.
C15_Witness ==
    /\ Quiescent
    /\ \E t \in Tasks : outcome[t] = "throttled"
    /\ delivered # None
    /\ delivered # build_text(logs, current_thinking_buffer, final_response_parts)
    /\ now - last_render_time >= render_interval

C17_ObservationDoesNotFlush ==
    [][UpdateStep
         => LET e == Last(history')
                f == PendingFragments(history)
            IN  /\ Status(e) = <<"observation">>
                     => /\ logs' = Append(logs, [type |-> "tool_result",
                                                 content |-> Get(e, "result")])
                        /\ UNCHANGED <<current_thinking_buffer, final_response_parts>>
                /\ (Status(e) \in FlushKinds /\ f # <<>>)
                     => /\ Len(logs') > Len(logs)
                        /\ logs'[Len(logs) + 1] = [type |-> "thinking", content |-> Join(f)]
                        /\ \A i \in (Len(logs) + 2)..Len(logs') : logs'[i].type # "thinking"]_vars

\* thinking, observation, thinking, tool_use: one Thought with both
\* fragments sits after the ToolResult.
C17_Witness ==
    /\ Len(history) = 4
    /\ Status(history[1]) = <<"thinking">>
    /\ Status(history[2]) = <<"observation">>
    /\ Status(history[3]) = <<"thinking">>
    /\ Status(history[4]) = <<"tool_use">>
    /\ Len(logs) = 3
    /\ logs[1].type = "tool_result"
    /\ logs[2] = [type |-> "thinking",
                  content |-> Get(history[1], "content") \o Get(history[3], "content")]
    /\ logs[3].type = "tool_call"
    /\ current_thinking_buffer = <<>>

\* C18: building the text changes nothing: when an edit starts, the
\* accumulators are what the events made them, the timestamp is untouched,
\* and the text is the text of that state.
C18_BuildTextIsPure ==
    [][\A t \in Tasks :
         StartsEdit(t)
           => /\ LET a == Accumulate(history')
                 IN  /\ logs' = a.logs
                     /\ current_thinking_buffer' = a.buf
                     /\ final_response_parts' = a.parts
                     /\ text'[t] = build_text(a.logs, a.buf, a.parts)
              /\ last_render_time' = last_render_time
              /\ ~UpdateStep
                   => UNCHANGED <<logs, current_thinking_buffer, final_response_parts>>]_vars

\* A call that waited for the lock has built its text while a thought was
\* pending, and the thought is still pending.
C18_Witness ==
    /\ MaxTasks >= 2
    /\ pc[2] = "editing"
    /\ current_thinking_buffer # <<>>
    /\ logs # <<>>
    /\ text[2] = build_text(logs, current_thinking_buffer, final_response_parts)

\* The texts of the Thought entries of a log, concatenated.
RECURSIVE ThoughtTexts(_)
ThoughtTexts(ls) ==
    IF ls = <<>> THEN <<>>
    ELSE (IF Head(ls).type = "thinking" THEN Head(ls).content ELSE <<>>)
            \o ThoughtTexts(Tail(ls))

\* The non-empty thinking contents of h, concatenated.
RECURSIVE ThinkingReceived(_)
ThinkingReceived(h) ==
    IF h = <<>> THEN <<>>
    ELSE (IF Status(Head(h)) = <<"thinking">> /\ Truthy(Get(Head(h), "content"))
          THEN Get(Head(h), "content") ELSE <<>>)
            \o ThinkingReceived(Tail(h))

\* C19: the Thought entries of logs followed by the pending thought spell
\* out every non-empty thinking content received, in arrival order.
C19_ThoughtConserved ==
    ThoughtTexts(logs) \o Join(current_thinking_buffer) = ThinkingReceived(history)

\* Two fragments were flushed into one Thought, an edit has failed and a call
\* was skipped by the throttle.
C19_Witness ==
    /\ \E i \in 1..Len(logs) : logs[i].type = "thinking" /\ Len(logs[i].content) >= 2
    /\ Len(ThinkingReceived(history)) >= 2
    /\ sink_errors > 0

\* C20: last_render_time never decreases and changes only when an edit
\* succeeds; a failed edit leaves it unchanged, so the next dirty update()
\* after a failed edit attempts another edit however little time has passed.
C20_FailedEditDoesNotThrottle ==
    [][/\ last_render_time' >= last_render_time
       /\ last_render_time' # last_render_time
            => (last_edit' = "ok" /\ \E t \in Tasks : pc[t] = "editing" /\ pc'[t] = "idle")
       /\ sink_errors' # sink_errors => last_render_time' = last_render_time
       /\ (UpdateStep /\ last_edit = "failed" /\ Dirty(history', Len(history')))
            => \E t \in Tasks : pc[t] = "idle" /\ pc'[t] \in {"editing", "waiting"}]_vars

====
